---- MODULE Spec2Model ----
(***************************************************************************)
(* A model of the sleeper-mcp server (src/src/server.ts): the player       *)
(* directory loaded at startup, the response cache in front of the         *)
(* upstream API, callApi, the tool handlers and the scoreboard join.       *)
(*                                                                         *)
(* Three state machines share the module's variables:                      *)
(*   Spec      the request handlers running concurrently over the cache    *)
(*   LoadSpec  the start-up load of the player directory, then the lookups *)
(*   JoinSpec  the join of get_matchup_scoreboard on enumerated inputs     *)
(* FairSpec is Spec with the fairness the event loop provides.             *)
(***************************************************************************)
EXTENDS Integers, Sequences, FiniteSets, TLC

VARIABLES
    now,              \* the clock, in ticks
    cache,            \* the LRUCache: entries, least recently used first
    pc,               \* per request: where its handler is suspended
    tool,             \* per request: the tool invoked
    step,             \* per request: which callApi of the handler is running
    fetched,          \* per request: the responses callApi returned so far
    out,              \* per request: what the handler gave the caller
    recency,          \* history: the cached urls, least recently set or hit first
    trail,            \* history: per request, how its latest cache lookup ended
    loadPc,           \* the start-up block: its position
    file,             \* /tmp/nfl.json: "absent", "valid", "corrupt" or "unreadable"
    snapshot,         \* the player dataset, its records in Object.entries order
    loadError,        \* what the start-up block's catch logged ("" if nothing)
    playerNameToId,   \* Map full_name -> player id
    playerIdToName,   \* Map player id -> full_name
    lookup,           \* the outcome of the last get_player_id / get_player_name
    league,           \* JoinSpec: the three upstream responses and the week
    scoreboard        \* JoinSpec: the matchupList the handler returned

vars == <<now, cache, pc, tool, step, fetched, out, recency, trail,
          loadPc, file, snapshot, loadError, playerNameToId, playerIdToName,
          lookup, league, scoreboard>>

handlerVars == <<now, cache, pc, tool, step, fetched, out, recency, trail>>
loadVars == <<loadPc, file, snapshot, loadError, playerNameToId, lookup>>
joinVars == <<league, scoreboard>>
notHandlerVars == <<loadVars, joinVars, playerIdToName>>

----------------------------------------------------------------------------
(* Small helpers                                                            *)

Range(s) == {s[i] : i \in DOMAIN s}

Last(s) == s[Len(s)]

\* The set S of integers as a sequence in ascending order.
RECURSIVE Ascending(_)
Ascending(S) ==
    IF S = {} THEN <<>>
    ELSE LET m == CHOOSE x \in S : \A y \in S : x <= y
         IN <<m>> \o Ascending(S \ {m})

\* The sequences over S of length at most n.
SeqsUpTo(S, n) == UNION {[1..k -> S] : k \in 0..n}

----------------------------------------------------------------------------
(* The join of get_matchup_scoreboard (server.ts 444-502)                   *)

\* Player ids are integer-like property names; a JavaScript object yields
\* such keys in ascending numeric order, which is the order listed here.
PlayerIds == <<"1", "2", "3">>

\* The position of a player id in the enumeration of an object's keys.
IdRankOf(id) == CHOOSE n \in DOMAIN PlayerIds : PlayerIds[n] = id

\* playerIdToName.get(id) || id
Translate(dir, id) ==
    IF id \in DOMAIN dir /\ dir[id] # "" THEN dir[id] ELSE id

\* Object.entries(e.players_points): the pairs, integer-like keys ascending.
ObjectEntries(pp) ==
    LET ids == SelectSeq(PlayerIds, LAMBDA id : id \in DOMAIN pp)
    IN [i \in 1..Len(ids) |-> <<ids[i], pp[ids[i]]>>]

\* Object.fromEntries: a later pair overwrites an earlier one with its key.
FromEntries(es) ==
    [k \in {es[i][1] : i \in DOMAIN es} |->
        es[CHOOSE i \in DOMAIN es :
              /\ es[i][1] = k
              /\ \A j \in DOMAIN es : es[j][1] = k => j <= i][2]]

\* usersById: for (const u of usersResponse) usersById[u.user_id] = u
IndexUsers(usersResponse) ==
    [id \in {usersResponse[i].user_id : i \in DOMAIN usersResponse} |->
        usersResponse[CHOOSE i \in DOMAIN usersResponse :
              /\ usersResponse[i].user_id = id
              /\ \A j \in DOMAIN usersResponse :
                    usersResponse[j].user_id = id => j <= i]]

\* rostersById: for (const r of rostersResponse) rostersById[r.roster_id] = r
IndexRosters(rostersResponse) ==
    [id \in {rostersResponse[i].roster_id : i \in DOMAIN rostersResponse} |->
        rostersResponse[CHOOSE i \in DOMAIN rostersResponse :
              /\ rostersResponse[i].roster_id = id
              /\ \A j \in DOMAIN rostersResponse :
                    rostersResponse[j].roster_id = id => j <= i]]

\* roster?.owner_id || "" : the key the user is looked up with.  An owner_id
\* of "" stands for every falsy owner_id (null, undefined, "").
OwnerKey(rostersById, e) ==
    IF e.roster_id \in DOMAIN rostersById
    THEN rostersById[e.roster_id].owner_id
    ELSE ""

\* A filter that keeps every rostered player: e.players.includes(id).
IsRostered(e, id) == id \in Range(e.players)

\* .filter(([id, _]) => e.starters.includes(id)), on the untranslated id
IsStarter(e, id) == id \in Range(e.starters)

\* The ScoreBoardEntry built for matchup entry e (server.ts 469-489).
ScoreEntry(e, usersById, rostersById, dir) ==
    LET key == OwnerKey(rostersById, e)
        found == key \in DOMAIN usersById
    IN [user_name |-> IF found THEN usersById[key].display_name ELSE "",
        team_name |-> IF found THEN usersById[key].metadata.team_name ELSE "",
        starters |-> [i \in DOMAIN e.starters |-> Translate(dir, e.starters[i])],
        players |-> [i \in DOMAIN e.players |-> Translate(dir, e.players[i])],
        total_points |-> e.points,
        players_points |->
            LET es == ObjectEntries(e.players_points)
            IN FromEntries([i \in DOMAIN es |->
                                <<Translate(dir, es[i][1]), es[i][2]>>]),
        starters_points |->
            LET es == SelectSeq(ObjectEntries(e.players_points),
                                LAMBDA p : IsStarter(e, p[1]))
            IN FromEntries([i \in DOMAIN es |->
                                <<Translate(dir, es[i][1]), es[i][2]>>]),
        matchup_id |-> e.matchup_id]

\* The object `grouped` after the loop over matchupResponse (461-492): keys
\* holds its property names in the order they were created, of their values.
Grouped(matchupResponse, usersById, rostersById, dir) ==
    LET RECURSIVE Loop(_, _)
        Loop(i, grouped) ==
            IF i > Len(matchupResponse) THEN grouped
            ELSE LET e == matchupResponse[i]
                     g == IF e.matchup_id \in DOMAIN grouped.of
                          THEN grouped
                          ELSE [keys |-> Append(grouped.keys, e.matchup_id),
                                of |-> grouped.of @@ (e.matchup_id :> <<>>)]
                     score == ScoreEntry(e, usersById, rostersById, dir)
                 IN Loop(i + 1,
                         [g EXCEPT !.of[e.matchup_id] = Append(@, score)])
    IN Loop(1, [keys |-> <<>>, of |-> <<>>])

\* An enumeration in creation order, whatever the names are.
CreationOrder(grouped) == grouped.keys

\* Object.keys(grouped), each name read back by parseInt: the names that are
\* array indices (integers >= 0) come first, in ascending numeric order, then
\* the other names in the order they were created.
ObjectKeys(grouped) ==
    Ascending({k \in Range(grouped.keys) : k >= 0})
        \o SelectSeq(grouped.keys, LAMBDA k : k < 0)

\* matchupList (494-502)
MatchupList(grouped, week) ==
    LET ks == ObjectKeys(grouped)
    IN [i \in 1..Len(ks) |->
           [matchup_id |-> ks[i], week |-> week, entries |-> grouped.of[ks[i]]]]

\* What the handler returns once its three fetches have succeeded.
Scoreboard(usersResponse, rostersResponse, matchupResponse, week, dir) ==
    MatchupList(Grouped(matchupResponse, IndexUsers(usersResponse),
                        IndexRosters(rostersResponse), dir),
                week)

----------------------------------------------------------------------------
(* JoinSpec: the join on enumerated upstream responses                      *)

MaxMatchups == 3

Weeks == {5}

UserPool ==
    { [user_id |-> "u1", display_name |-> "Ann",
       metadata |-> [team_name |-> "Aces"]],
      [user_id |-> "", display_name |-> "Nemo",
       metadata |-> [team_name |-> "Nulls"]] }

\* The users lists: each subset of the pool, in either order.
UsersLists == {us \in SeqsUpTo(UserPool, Cardinality(UserPool)) :
                  \A i, j \in DOMAIN us : i # j => us[i] # us[j]}

OwnerIds == {"u1", "u2", ""}

RosterIds == {1, 2}

\* The rosters lists: each roster id absent or present once, ascending.
RostersLists ==
    {rs \in SeqsUpTo([roster_id : RosterIds, owner_id : OwnerIds],
                     Cardinality(RosterIds)) :
        \A i, j \in DOMAIN rs : i < j => rs[i].roster_id < rs[j].roster_id}

MatchupIds == {2, 7, 10}

Points == [id \in Range(PlayerIds) |->
              CASE id = "1" -> 30 [] id = "2" -> 20 [] OTHER -> 40]

\* A matchup entry with the given lineup.
Entry(rid, mid, starters, players, scored) ==
    [roster_id |-> rid, matchup_id |-> mid, starters |-> starters,
     players |-> players, points |-> 50,
     players_points |-> [id \in scored |-> Points[id]]]

\* Entries that differ in roster and matchup id, with one fixed lineup.
PlainEntries ==
    {Entry(rid, mid, <<"1">>, <<"1", "2">>, {"1", "2"}) :
        rid \in RosterIds, mid \in MatchupIds}

Names == {"A", "B"}

\* The directories: each player id unknown or mapped to a name.
Directories ==
    UNION {[D -> Names] : D \in SUBSET Range(PlayerIds)}

\* Inputs that vary the users, the rosters and the list of entries.
JoinInputs ==
    /\ league \in [users : UsersLists, rosters : RostersLists,
                   matchups : SeqsUpTo(PlainEntries, MaxMatchups),
                   week : Weeks]
    /\ playerIdToName = ("1" :> "A")

\* Inputs that vary the directory and the lineup of a single entry.
LineupInputs ==
    /\ playerIdToName \in Directories
    /\ \E S \in SUBSET Range(PlayerIds), P \in SUBSET Range(PlayerIds) :
          league = [users |-> <<>>, rosters |-> <<>>,
                    matchups |-> <<Entry(1, 7,
                                         SelectSeq(PlayerIds, LAMBDA id : id \in S),
                                         PlayerIds, P)>>,
                    week |-> CHOOSE w \in Weeks : TRUE]

JoinInit ==
    /\ JoinInputs \/ LineupInputs
    /\ scoreboard = [done |-> FALSE, list |-> <<>>]
    /\ now = 0 /\ cache = <<>> /\ pc = <<>> /\ tool = <<>> /\ step = <<>>
    /\ fetched = <<>> /\ out = <<>> /\ recency = <<>> /\ trail = <<>>
    /\ loadPc = "serving" /\ file = "valid" /\ snapshot = <<>> /\ loadError = ""
    /\ playerNameToId = <<>>
    /\ lookup = [tool |-> "none", arg |-> "", found |-> FALSE, value |-> ""]

\* The handler's code after its third fetch: the join, then the return.
Join ==
    /\ ~scoreboard.done
    /\ scoreboard' = [done |-> TRUE,
                      list |-> Scoreboard(league.users, league.rosters,
                                          league.matchups, league.week,
                                          playerIdToName)]
    /\ UNCHANGED <<league, playerIdToName>>
    /\ UNCHANGED handlerVars
    /\ UNCHANGED loadVars

JoinNext == Join

JoinSpec == JoinInit /\ [][JoinNext]_vars

----------------------------------------------------------------------------
(* The response cache (server.ts 6, 13-16)                                  *)
(*                                                                          *)
(* server.ts only constructs the cache and calls get and set on it; the     *)
(* class is the lru-cache package.  Its get and set are modelled as the     *)
(* design describes them (ResponseCache: a hit only while                   *)
(* now - insertedAt < ttl, a stale entry removed by the get that finds it,  *)
(* least-recently-used eviction at capacity).                               *)

\* The capacity (max: 1000) and the time-to-live (ttl: 30 * 1000 ms), scaled
\* down; a tick of the clock is ttl / CacheTtl long.
CacheMax == 2

CacheTtl == 2

\* The same options with updateAgeOnGet switched on.
cacheOptionsSliding ==
    [max |-> CacheMax, ttl |-> CacheTtl, updateAgeOnGet |-> TRUE]

\* The same options with the capacity left out (0: no limit).
cacheOptionsUnbounded ==
    [max |-> 0, ttl |-> CacheTtl, updateAgeOnGet |-> FALSE]

\* new LRUCache({ max, ttl }); updateAgeOnGet is not given, so it is off.
cacheOptions ==
    [max |-> CacheMax, ttl |-> CacheTtl, updateAgeOnGet |-> FALSE]

NoValue == [data |-> 0, timestamp |-> 0]

IndexOfKey(c, key) == CHOOSE i \in DOMAIN c : c[i].key = key

HasKey(c, key) == \E i \in DOMAIN c : c[i].key = key

Without(c, key) == SelectSeq(c, LAMBDA en : en.key # key)

IsStale(en, t) == t - en.start >= cacheOptions.ttl

\* cache.get(key) at time t: the outcome and the cache it leaves.  A hit
\* makes the entry the most recently used; a stale entry is deleted.
LRUGet(c, key, t) ==
    IF ~HasKey(c, key)
    THEN [hit |-> FALSE, value |-> NoValue, cache |-> c]
    ELSE LET en == c[IndexOfKey(c, key)]
         IN IF IsStale(en, t)
            THEN [hit |-> FALSE, value |-> NoValue, cache |-> Without(c, key)]
            ELSE [hit |-> TRUE, value |-> en.value,
                  cache |-> Append(Without(c, key),
                                   IF cacheOptions.updateAgeOnGet
                                   THEN [en EXCEPT !.start = t]
                                   ELSE en)]

\* cache.set(key, value) at time t: an existing key is overwritten and its
\* age restarts; a new key at capacity first evicts the least recently used.
LRUSet(c, key, value, t) ==
    LET en == [key |-> key, value |-> value, start |-> t]
    IN IF HasKey(c, key) THEN Append(Without(c, key), en)
       ELSE IF cacheOptions.max > 0 /\ Len(c) >= cacheOptions.max
            THEN Append(Tail(c), en)
            ELSE Append(c, en)

----------------------------------------------------------------------------
(* callApi and the tool handlers (server.ts 122-141, 293-296, 331-334,      *)
(* 385-388, 440-459)                                                        *)

MaxTime == 2

Reqs == {"r1", "r2"}

\* The bodies the upstream may answer with, by version.
Payloads == {1, 2}

UsersUrl == "/league/L/users"
RostersUrl == "/league/L/rosters"
MatchupsUrl == "/league/L/matchups/5"

Urls == {UsersUrl, RostersUrl, MatchupsUrl}

\* get_league_users stands for the handlers that make one callApi and return
\* what it returned (get_nfl_state, get_league_rosters, get_league_users,
\* get_league_matchups): they differ in the url only.
Tools == {"get_league_users", "get_matchup_scoreboard"}

\* The urls a handler passes to callApi, in order.
Plan(t) ==
    CASE t = "get_league_users" -> <<UsersUrl>>
      [] t = "get_league_rosters" -> <<RostersUrl>>
      [] t = "get_league_matchups" -> <<MatchupsUrl>>
      [] t = "get_matchup_scoreboard" -> <<UsersUrl, RostersUrl, MatchupsUrl>>

\* The parsed body of version p of each url.
Body(url, p) ==
    CASE url = UsersUrl ->
            IF p = 1 THEN <<>>
            ELSE <<[user_id |-> "u1", display_name |-> "Ann",
                    metadata |-> [team_name |-> "Aces"]]>>
      [] url = RostersUrl ->
            <<[roster_id |-> 1, owner_id |-> IF p = 1 THEN "u1" ELSE "u2"]>>
      [] url = MatchupsUrl ->
            IF p = 1
            THEN <<Entry(1, 7, <<"1">>, <<"1", "2">>, {"1", "2"})>>
            ELSE <<Entry(1, 7, <<"1">>, <<"1", "2">>, {"1", "2"}),
                   Entry(2, 2, <<"3">>, <<"3">>, {"3"})>>

NoOut == [kind |-> "none", data |-> 0, scoreboard |-> <<>>, error |-> ""]

Url(r) == Plan(tool[r])[step[r]]

\* A handler that answers a failed fetch with the join of nothing.
ThrowSwallowed(r, err) ==
    [kind |-> "ok", data |-> 0, scoreboard |-> <<>>, error |-> ""]

\* throw new Error(...), or a rejected await: the handler ends with the error
\* and hands the caller nothing else.
Throw(r, err) ==
    [kind |-> "error", data |-> 0, scoreboard |-> <<>>, error |-> err]

\* What the handler returns when its last callApi has returned.
Result(r, got) ==
    IF tool[r] = "get_matchup_scoreboard"
    THEN [kind |-> "ok", data |-> 0,
          scoreboard |-> Scoreboard(Body(UsersUrl, got[1]),
                                    Body(RostersUrl, got[2]),
                                    Body(MatchupsUrl, got[3]),
                                    CHOOSE w \in Weeks : TRUE, playerIdToName),
          error |-> ""]
    ELSE [kind |-> "ok", data |-> got[1], scoreboard |-> <<>>, error |-> ""]

\* callApi returned data to handler r: the handler goes on to its next
\* callApi, or builds its result and returns.
Resume(r, data) ==
    LET got == Append(fetched[r], data)
    IN /\ fetched' = [fetched EXCEPT ![r] = got]
       /\ IF step[r] < Len(Plan(tool[r]))
          THEN /\ step' = [step EXCEPT ![r] = @ + 1]
               /\ pc' = [pc EXCEPT ![r] = "call"]
               /\ out' = out
          ELSE /\ step' = step
               /\ pc' = [pc EXCEPT ![r] = "done"]
               /\ out' = [out EXCEPT ![r] = Result(r, got)]

\* The handler of r ends with an error thrown by callApi.
Fail(r, err) ==
    /\ pc' = [pc EXCEPT ![r] = "done"]
    /\ out' = [out EXCEPT ![r] = Throw(r, err)]
    /\ UNCHANGED <<step, fetched>>

\* A store that leaves an entry already cached for the url as it is.
StoreIfAbsent(c, url, data, t) ==
    IF HasKey(c, url) THEN c
    ELSE LRUSet(c, url, [data |-> data, timestamp |-> t], t)

\* cache.set(url, { data, timestamp: Date.now() })
Store(c, url, data, t) ==
    LRUSet(c, url, [data |-> data, timestamp |-> t], t)

\* A condition that never takes the cached branch.
UseCachedNever(cached) == FALSE

\* if (cached)
UseCached(cached) == cached.hit

\* The history after url was set or hit, the cache then holding c: url is
\* the most recently used, and urls the cache dropped are forgotten.
Touch(url, c) ==
    SelectSeq(Append(SelectSeq(recency, LAMBDA u : u # url), url),
              LAMBDA u : HasKey(c, u))

\* The history after a lookup that hit nothing, the cache then holding c.
Forget(c) == SelectSeq(recency, LAMBDA u : HasKey(c, u))

\* A request for a tool arrives and its handler is started.
Invoke(r, t) ==
    /\ pc[r] \in {"idle", "done"}
    /\ pc' = [pc EXCEPT ![r] = "call"]
    /\ tool' = [tool EXCEPT ![r] = t]
    /\ step' = [step EXCEPT ![r] = 1]
    /\ fetched' = [fetched EXCEPT ![r] = <<>>]
    /\ out' = [out EXCEPT ![r] = NoOut]
    /\ trail' = [trail EXCEPT ![r] = "none"]
    /\ UNCHANGED <<now, cache, recency>>
    /\ UNCHANGED notHandlerVars

\* callApi(url) up to its first await: the cache lookup, then either the
\* return of the cached data or the GET (122-129).
CallApi(r) ==
    /\ pc[r] = "call"
    /\ LET cached == LRUGet(cache, Url(r), now)
       IN /\ cache' = cached.cache
          /\ recency' = IF cached.hit THEN Touch(Url(r), cached.cache)
                         ELSE Forget(cached.cache)
          /\ trail' = [trail EXCEPT ![r] =
                          IF cached.hit THEN "hit"
                          ELSE IF HasKey(cache, Url(r)) THEN "stale"
                          ELSE "miss"]
          /\ IF UseCached(cached)
             THEN Resume(r, cached.value.data)
             ELSE /\ pc' = [pc EXCEPT ![r] = "fetch"]
                  /\ UNCHANGED <<step, fetched, out>>
    /\ UNCHANGED <<now, tool>>
    /\ UNCHANGED notHandlerVars

\* The upstream answers with a 2xx status: callApi awaits the body (131-136).
FetchOk(r) ==
    /\ pc[r] = "fetch"
    /\ pc' = [pc EXCEPT ![r] = "json"]
    /\ UNCHANGED <<now, cache, tool, step, fetched, out, recency, trail>>
    /\ UNCHANGED notHandlerVars

\* The upstream answers with another status: callApi throws (131-135).
FetchNotOk(r) ==
    /\ pc[r] = "fetch"
    /\ Fail(r, "http")
    /\ UNCHANGED <<now, cache, tool, recency, trail>>
    /\ UNCHANGED notHandlerVars

\* The request fails in transport: fetch rejects (129).
FetchReject(r) ==
    /\ pc[r] = "fetch"
    /\ Fail(r, "transport")
    /\ UNCHANGED <<now, cache, tool, recency, trail>>
    /\ UNCHANGED notHandlerVars

\* The body parses to version p: callApi stores it and returns it (136-140).
JsonOk(r, p) ==
    /\ pc[r] = "json"
    /\ cache' = Store(cache, Url(r), p, now)
    /\ recency' = Touch(Url(r), cache')
    /\ Resume(r, p)
    /\ UNCHANGED <<now, tool, trail>>
    /\ UNCHANGED notHandlerVars

\* The body is not JSON: response.json() rejects (136).
JsonFail(r) ==
    /\ pc[r] = "json"
    /\ Fail(r, "parse")
    /\ UNCHANGED <<now, cache, tool, recency, trail>>
    /\ UNCHANGED notHandlerVars

\* Time passes.
Tick ==
    /\ now < MaxTime
    /\ now' = now + 1
    /\ UNCHANGED <<cache, pc, tool, step, fetched, out, recency, trail>>
    /\ UNCHANGED notHandlerVars

Init ==
    /\ now = 0
    /\ cache = <<>>
    /\ pc = [r \in Reqs |-> "idle"]
    /\ tool = [r \in Reqs |-> "get_league_users"]
    /\ step = [r \in Reqs |-> 0]
    /\ fetched = [r \in Reqs |-> <<>>]
    /\ out = [r \in Reqs |-> NoOut]
    /\ recency = <<>>
    /\ trail = [r \in Reqs |-> "none"]
    /\ loadPc = "serving" /\ file = "valid" /\ snapshot = <<>> /\ loadError = ""
    /\ playerNameToId = ("A" :> "1") /\ playerIdToName = ("1" :> "A")
    /\ lookup = [tool |-> "none", arg |-> "", found |-> FALSE, value |-> ""]
    /\ league = <<>> /\ scoreboard = <<>>

Next ==
    \/ \E r \in Reqs, t \in Tools : Invoke(r, t)
    \/ \E r \in Reqs : CallApi(r)
    \/ \E r \in Reqs : FetchOk(r)
    \/ \E r \in Reqs : FetchNotOk(r)
    \/ \E r \in Reqs : FetchReject(r)
    \/ \E r \in Reqs, p \in Payloads : JsonOk(r, p)
    \/ \E r \in Reqs : JsonFail(r)
    \/ Tick

Spec == Init /\ [][Next]_vars

\* The event loop runs every continuation that is ready, and time passes;
\* nothing obliges the upstream to answer or a client to send a request.
FairSpec ==
    /\ Init /\ [][Next]_vars
    /\ \A r \in Reqs : WF_vars(CallApi(r))
    /\ WF_vars(Tick)

----------------------------------------------------------------------------
(* LoadSpec: the start-up load of the player directory (server.ts 94-120)   *)
(* and the two lookup tools (194-201, 229-236)                              *)

\* A record of the dataset: the player id and, unless the value is null
\* (ok = FALSE), the player's full_name.
Records(id) ==
    {[key |-> id, ok |-> FALSE, full_name |-> ""]}
        \cup {[key |-> id, ok |-> TRUE, full_name |-> n] : n \in Names}

\* The datasets: each player id absent or present once, ids ascending.
Snapshots ==
    {sn \in SeqsUpTo(UNION {Records(id) : id \in Range(PlayerIds)},
                     Len(PlayerIds)) :
        \A i, j \in DOMAIN sn : i < j => IdRankOf(sn[i].key) < IdRankOf(sn[j].key)}

\* for (const [key, playerData] of Object.entries(parsedData)) { set; set }
\* (114-117): the two maps when the loop ends or throws, and the error.
\* Reading full_name of a null record throws; the records before it stay.
Build(parsedData) ==
    LET RECURSIVE Loop(_, _, _)
        Loop(i, n2i, i2n) ==
            IF i > Len(parsedData)
            THEN [nameToId |-> n2i, idToName |-> i2n, error |-> ""]
            ELSE IF ~parsedData[i].ok
            THEN [nameToId |-> n2i, idToName |-> i2n, error |-> "record"]
            ELSE Loop(i + 1,
                      (parsedData[i].full_name :> parsedData[i].key) @@ n2i,
                      (parsedData[i].key :> parsedData[i].full_name) @@ i2n)
    IN Loop(1, <<>>, <<>>)

\* readFileSync, JSON.parse and the loop (111-117) on the file as it is in
\* the next state, then the catch (118-120): the server goes on to serve.
ReadAndBuild ==
    /\ loadPc' = "serving"
    /\ IF file' = "unreadable"
       THEN /\ loadError' = "read"
            /\ UNCHANGED <<playerNameToId, playerIdToName>>
       ELSE IF file' = "corrupt"
       THEN /\ loadError' = "parse"
            /\ UNCHANGED <<playerNameToId, playerIdToName>>
       ELSE LET built == Build(snapshot)
            IN /\ loadError' = built.error
               /\ playerNameToId' = built.nameToId
               /\ playerIdToName' = built.idToName

\* The catch block alone: the error is logged and start-up goes on.
Caught(err) ==
    /\ loadPc' = "serving"
    /\ loadError' = err
    /\ UNCHANGED <<file, playerNameToId, playerIdToName>>

\* The block up to its first await: existsSync, then the fetch of the
\* dataset or, the file being there, the read (100-102, 111-117).
LoadStart ==
    /\ loadPc = "start"
    /\ IF file = "absent"
       THEN /\ loadPc' = "fetch"
            /\ UNCHANGED <<file, loadError, playerNameToId, playerIdToName>>
       ELSE /\ file' = file
            /\ ReadAndBuild
    /\ UNCHANGED <<snapshot, lookup>>
    /\ UNCHANGED handlerVars /\ UNCHANGED joinVars

\* The fetch rejects (102).
LoadFetchReject ==
    /\ loadPc = "fetch"
    /\ Caught("fetch")
    /\ UNCHANGED <<snapshot, lookup>>
    /\ UNCHANGED handlerVars /\ UNCHANGED joinVars

\* The upstream answers with a status that is not 2xx (103-107).
LoadFetchNotOk ==
    /\ loadPc = "fetch"
    /\ Caught("status")
    /\ UNCHANGED <<snapshot, lookup>>
    /\ UNCHANGED handlerVars /\ UNCHANGED joinVars

\* The upstream answers 2xx: the block awaits the body (108).
LoadFetchOk ==
    /\ loadPc = "fetch"
    /\ loadPc' = "body"
    /\ UNCHANGED <<file, loadError, playerNameToId, playerIdToName>>
    /\ UNCHANGED <<snapshot, lookup>>
    /\ UNCHANGED handlerVars /\ UNCHANGED joinVars

\* The body is not JSON: response.json() rejects (108).
LoadBodyFail ==
    /\ loadPc = "body"
    /\ Caught("body")
    /\ UNCHANGED <<snapshot, lookup>>
    /\ UNCHANGED handlerVars /\ UNCHANGED joinVars

\* The body parses but the file cannot be written (109).
LoadWriteFail ==
    /\ loadPc = "body"
    /\ Caught("write")
    /\ UNCHANGED <<snapshot, lookup>>
    /\ UNCHANGED handlerVars /\ UNCHANGED joinVars

\* The body parses and is written, then read back and processed (108-117).
LoadBodyOk ==
    /\ loadPc = "body"
    /\ file' = "valid"
    /\ ReadAndBuild
    /\ UNCHANGED <<snapshot, lookup>>
    /\ UNCHANGED handlerVars /\ UNCHANGED joinVars

\* get_player_id (194-201): the id, or the throw when there is none.
GetPlayerId(name) ==
    /\ loadPc = "serving"
    /\ lookup' = IF name \in DOMAIN playerNameToId /\ playerNameToId[name] # ""
                 THEN [tool |-> "get_player_id", arg |-> name,
                       found |-> TRUE, value |-> playerNameToId[name]]
                 ELSE [tool |-> "get_player_id", arg |-> name,
                       found |-> FALSE, value |-> ""]
    /\ UNCHANGED <<loadPc, file, snapshot, loadError, playerNameToId,
                   playerIdToName>>
    /\ UNCHANGED handlerVars /\ UNCHANGED joinVars

\* get_player_name (229-236): the name, or the throw when there is none.
GetPlayerName(id) ==
    /\ loadPc = "serving"
    /\ lookup' = IF id \in DOMAIN playerIdToName /\ playerIdToName[id] # ""
                 THEN [tool |-> "get_player_name", arg |-> id,
                       found |-> TRUE, value |-> playerIdToName[id]]
                 ELSE [tool |-> "get_player_name", arg |-> id,
                       found |-> FALSE, value |-> ""]
    /\ UNCHANGED <<loadPc, file, snapshot, loadError, playerNameToId,
                   playerIdToName>>
    /\ UNCHANGED handlerVars /\ UNCHANGED joinVars

LoadInit ==
    /\ loadPc = "start"
    /\ file \in {"absent", "valid", "corrupt", "unreadable"}
    /\ snapshot \in Snapshots
    /\ loadError = ""
    /\ playerNameToId = <<>> /\ playerIdToName = <<>>
    /\ lookup = [tool |-> "none", arg |-> "", found |-> FALSE, value |-> ""]
    /\ now = 0 /\ cache = <<>> /\ pc = <<>> /\ tool = <<>> /\ step = <<>>
    /\ fetched = <<>> /\ out = <<>> /\ recency = <<>> /\ trail = <<>>
    /\ league = <<>> /\ scoreboard = <<>>

LoadNext ==
    \/ LoadStart
    \/ LoadFetchReject
    \/ LoadFetchNotOk
    \/ LoadFetchOk
    \/ LoadBodyFail
    \/ LoadWriteFail
    \/ LoadBodyOk
    \/ \E name \in Names : GetPlayerId(name)
    \/ \E id \in Range(PlayerIds) : GetPlayerName(id)

LoadSpec == LoadInit /\ [][LoadNext]_vars

----------------------------------------------------------------------------
(* Claims about the cache, callApi and the handlers (checked under Spec)    *)

HeldIn(c, url) == c[IndexOfKey(c, url)]

\* The cache holds an entry for url that has not expired.
Live(url) == HasKey(cache, url) /\ ~IsStale(HeldIn(cache, url), now)

\* This step is request r's callApi running from its entry to its first
\* await or its return.
Called(r) == pc[r] = "call" /\ (pc'[r] # "call" \/ step'[r] # step[r])

\* This step is request r's callApi storing a parsed body and returning it.
Stored(r) ==
    pc[r] = "json" /\ pc'[r] # "json" /\ Len(fetched'[r]) = Len(fetched[r]) + 1

\* Request o is left as it was by this step.
Untouched(o) == <<pc[o], step[o], fetched[o], out[o]>>'
                    = <<pc[o], step[o], fetched[o], out[o]>>

\* C1: a callApi(url) invoked while the cache holds a live entry for url
\* returns that entry's payload and issues no GET; a GET is issued only by
\* a callApi whose lookup missed.
C1_HitServedFromCache ==
    [][\A r \in Reqs :
          /\ Called(r) =>
                IF Live(Url(r))
                THEN /\ pc'[r] # "fetch"
                     /\ fetched'[r] =
                           Append(fetched[r], HeldIn(cache, Url(r)).value.data)
                ELSE /\ pc'[r] = "fetch"
                     /\ fetched'[r] = fetched[r]
          /\ (pc[r] # "fetch" /\ pc'[r] = "fetch") =>
                pc[r] = "call" /\ ~Live(Url(r))]_vars

\* A get_league_users request was answered from the cache.
C1_Witness ==
    \E r \in Reqs :
        /\ pc[r] = "done" /\ tool[r] = "get_league_users"
        /\ trail[r] = "hit" /\ out[r].kind = "ok"
        /\ HasKey(cache, UsersUrl)
        /\ out[r].data = HeldIn(cache, UsersUrl).value.data

\* C2: a get right after set(key, v) returns v; while the cache holds an
\* entry stored at insertedAt, a lookup hits exactly when
\* now - insertedAt < ttl, however often the entry was hit in between.
C2_TtlFromInsertion ==
    [][\A r \in Reqs :
          /\ Stored(r) =>
                LET g == LRUGet(cache', Url(r), now')
                IN g.hit /\ g.value.data = Last(fetched'[r])
          /\ (Called(r) /\ HasKey(cache, Url(r))) =>
                LET insertedAt == HeldIn(cache, Url(r)).value.timestamp
                IN (pc'[r] # "fetch") <=> (now - insertedAt < CacheTtl)]_vars

\* One request was answered from the cached users entry, and another now
\* finds that entry expired, a full time-to-live after the start.
C2_Witness ==
    \E r, o \in Reqs :
        /\ r # o /\ now = CacheTtl
        /\ tool[r] = "get_league_users" /\ tool[o] = "get_league_users"
        /\ trail[o] = "hit" /\ pc[o] = "done"
        /\ trail[r] = "stale" /\ pc[r] = "fetch"
        /\ ~HasKey(cache, UsersUrl)

EntriesBut(c, url) == {en \in Range(c) : en.key # url}

\* C3: the cache never holds more than its maximum number of entries; a set
\* of a new key at full capacity removes exactly the entry least recently
\* set or hit, any other set removes no other entry, and a lookup removes
\* nothing but an expired entry of its own key.
C3_CapacityAndLru ==
    [][/\ Len(cache') <= CacheMax
       /\ \A i, j \in DOMAIN cache' : i # j => cache'[i].key # cache'[j].key
       /\ \A r \in Reqs :
             /\ Stored(r) =>
                   /\ HasKey(cache', Url(r))
                   /\ EntriesBut(cache', Url(r)) =
                         IF ~HasKey(cache, Url(r)) /\ Len(cache) = CacheMax
                         THEN EntriesBut(cache, Url(r))
                                 \ {HeldIn(cache, Head(recency))}
                         ELSE EntriesBut(cache, Url(r))
             /\ Called(r) =>
                   EntriesBut(cache', Url(r)) = EntriesBut(cache, Url(r))]_vars

\* The scoreboard handler cached users, then rosters; a get_league_users
\* request hit users; the handler's matchups then evicted rosters.
C3_Witness ==
    /\ now = 0
    /\ [i \in DOMAIN cache |-> cache[i].key] = <<UsersUrl, MatchupsUrl>>
    /\ \E r, o \in Reqs :
          /\ tool[r] = "get_matchup_scoreboard" /\ pc[r] = "done"
          /\ out[r].kind = "ok"
          /\ tool[o] = "get_league_users" /\ trail[o] = "hit"

\* C4: when a fetch of get_matchup_scoreboard ends without data, the handler
\* ends there with that error and no scoreboard; it returns a scoreboard
\* only when all three fetches returned data.
C4_FailsAsAWhole ==
    [][\A r \in Reqs :
          tool'[r] = "get_matchup_scoreboard" =>
             /\ ( /\ pc[r] \in {"fetch", "json"}
                  /\ pc'[r] \notin {"fetch", "json"}
                  /\ fetched'[r] = fetched[r] ) =>
                   /\ pc'[r] = "done"
                   /\ out'[r].kind = "error"
                   /\ out'[r].error \in {"http", "transport", "parse"}
                   /\ out'[r].scoreboard = <<>>
             /\ (pc'[r] = "done" /\ out'[r].kind # "error") =>
                   /\ Len(fetched'[r]) = 3
                   /\ out'[r].kind = "ok"]_vars

\* The handler fetched users and rosters, and its matchups fetch failed.
C4_Witness ==
    \E r \in Reqs :
        /\ tool[r] = "get_matchup_scoreboard" /\ pc[r] = "done"
        /\ Len(fetched[r]) = 2
        /\ out[r].kind = "error" /\ out[r].scoreboard = <<>>

\* C6 as stated: every callApi that missed the cache eventually completes,
\* with a result or a failure, whether or not the upstream answers.
C6_EveryMissCompletes ==
    \A r \in Reqs : (pc[r] \in {"fetch", "json"}) ~> (pc[r] \notin {"fetch", "json"})

\* C8: a callApi that misses issues its own GET although another request
\* is already waiting for the same url, and touches no other request; when
\* its body arrives it returns it and the cache holds exactly that body for
\* the url, the other request still waiting for its own.
C8_NoCoalescing ==
    [][\A r \in Reqs :
          /\ ( /\ Called(r) /\ ~Live(Url(r))
               /\ \E o \in Reqs \ {r} :
                     pc[o] \in {"fetch", "json"} /\ Url(o) = Url(r) ) =>
                /\ pc'[r] = "fetch"
                /\ \A o \in Reqs \ {r} : Untouched(o)
          /\ Stored(r) =>
                /\ HasKey(cache', Url(r))
                /\ HeldIn(cache', Url(r)).value.data = Last(fetched'[r])
                /\ \A o \in Reqs \ {r} : Untouched(o)]_vars

\* Two get_league_users requests both missed, each fetched, and they were
\* answered with different bodies; the cache holds one of them.
C8_Witness ==
    /\ now = 0 /\ Len(cache) = 1
    /\ \E r, o \in Reqs :
          /\ r # o
          /\ tool[r] = "get_league_users" /\ tool[o] = "get_league_users"
          /\ pc[r] = "done" /\ pc[o] = "done"
          /\ trail[r] = "miss" /\ trail[o] = "miss"
          /\ out[r].kind = "ok" /\ out[o].kind = "ok"
          /\ out[r].data # out[o].data
          /\ HeldIn(cache, UsersUrl).value.data = out[o].data

----------------------------------------------------------------------------
(* Claims about the directory load (checked under LoadSpec)                 *)

\* C7 as stated: when the load fails at any step, start-up goes on, both
\* maps are left empty and every lookup reports that nothing was found.
C7_FailureLeavesEmpty ==
    loadError # "" =>
        /\ loadPc = "serving"
        /\ DOMAIN playerNameToId = {}
        /\ DOMAIN playerIdToName = {}
        /\ lookup.tool # "none" => ~lookup.found

----------------------------------------------------------------------------
(* Claims about the join (checked under JoinSpec)                           *)

MatchupIdsOf(list) == [i \in DOMAIN list |-> list[i].matchup_id]

\* The position at which matchup id m first appears in the upstream list.
FirstIndex(m) ==
    CHOOSE i \in DOMAIN league.matchups :
        /\ league.matchups[i].matchup_id = m
        /\ \A j \in 1..(i - 1) : league.matchups[j].matchup_id # m

\* The upstream entries of matchup m, in upstream order.
UpstreamEntries(m) ==
    SelectSeq(league.matchups, LAMBDA e : e.matchup_id = m)

\* The ScoreBoardEntry the scoreboard holds for the i-th upstream entry.
ScoreOf(i) ==
    LET m == league.matchups[i].matchup_id
        k == Cardinality({j \in 1..i : league.matchups[j].matchup_id = m})
        g == CHOOSE x \in Range(scoreboard.list) : x.matchup_id = m
    IN g.entries[k]

\* Within each emitted group the entries are those of the upstream entries
\* with that matchup id, in upstream order, and every matchup id has a group.
GroupsKeepUpstreamOrder ==
    /\ {scoreboard.list[i].matchup_id : i \in DOMAIN scoreboard.list}
          = {league.matchups[i].matchup_id : i \in DOMAIN league.matchups}
    /\ \A i \in DOMAIN scoreboard.list :
          LET g == scoreboard.list[i]
              es == UpstreamEntries(g.matchup_id)
          IN /\ g.week = league.week
             /\ g.entries =
                  [k \in DOMAIN es |->
                      ScoreEntry(es[k], IndexUsers(league.users),
                                 IndexRosters(league.rosters), playerIdToName)]

MetadataMissing(i) ==
    LET e == league.matchups[i]
        rs == {r \in Range(league.rosters) : r.roster_id = e.roster_id}
    IN \/ rs = {}
       \/ \E r \in rs :
             \A u \in Range(league.users) : u.user_id # r.owner_id

\* C9 as stated: an entry whose roster is absent from the rosters list, or
\* whose roster's owner is absent from the users list, gets the empty string
\* as user_name and team_name; every other entry gets its owner's names.
C9_PlaceholdersWhenMissing ==
    scoreboard.done =>
        \A i \in DOMAIN league.matchups :
            IF MetadataMissing(i)
            THEN ScoreOf(i).user_name = "" /\ ScoreOf(i).team_name = ""
            ELSE \E r \in Range(league.rosters), u \in Range(league.users) :
                    /\ r.roster_id = league.matchups[i].roster_id
                    /\ u.user_id = r.owner_id
                    /\ ScoreOf(i).user_name = u.display_name
                    /\ ScoreOf(i).team_name = u.metadata.team_name

\* The starters of the i-th upstream entry that have points upstream.
ScoringStarters(i) ==
    Range(league.matchups[i].starters)
        \cap DOMAIN league.matchups[i].players_points

\* C10 as stated: starters_points has a key for exactly the identifiers that
\* are starters and keys of players_points, the key being the directory name
\* or else the raw id, and its value the upstream points of that identifier.
C10_PointsPerIdentifier ==
    scoreboard.done =>
        \A i \in DOMAIN league.matchups :
            LET sp == ScoreOf(i).starters_points
            IN /\ DOMAIN sp = {Translate(playerIdToName, id) :
                                  id \in ScoringStarters(i)}
               /\ \A id \in ScoringStarters(i) :
                     sp[Translate(playerIdToName, id)]
                        = league.matchups[i].players_points[id]

\* C10 amended: the keys of starters_points are the translations (directory
\* name, else raw id) of exactly the identifiers that are starters and keys
\* of players_points; the value of a key is the upstream points of the
\* identifier translated to it, and when several are, of the one that
\* players_points enumerates last.
C10_PointsLastWins ==
    scoreboard.done =>
        \A i \in DOMAIN league.matchups :
            LET sp == ScoreOf(i).starters_points
            IN /\ DOMAIN sp = {Translate(playerIdToName, id) :
                                  id \in ScoringStarters(i)}
               /\ \A key \in DOMAIN sp :
                     LET ids == {id \in ScoringStarters(i) :
                                    Translate(playerIdToName, id) = key}
                         last == CHOOSE id \in ids :
                                    \A o \in ids : IdRankOf(o) <= IdRankOf(id)
                     IN sp[key] = league.matchups[i].players_points[last]

\* Starters 1 and 3 share a directory name and both have points, player 2
\* has points but does not start: one key, holding the points of player 3.
C10_Witness ==
    /\ scoreboard.done
    /\ Len(league.matchups) = 1
    /\ league.matchups[1].starters = <<"1", "3">>
    /\ DOMAIN league.matchups[1].players_points = {"1", "2", "3"}
    /\ playerIdToName = ("1" :> "A" @@ "3" :> "A")
    /\ scoreboard.list[1].entries[1].starters_points = ("A" :> 40)

====
